---- MODULE Spec2Model ----
(***************************************************************************)
(* A model of DineBot's query pipeline: the pattern cascade and the entity *)
(* scan of NLPService, the fuzzy item matcher, the handlers of             *)
(* QueryService, the read operations of DatabaseManager and the chat       *)
(* endpoint of app.py.                                                     *)
(*                                                                         *)
(* Text is a sequence of one-character strings.  A confidence is a number  *)
(* of hundredths (0.85 is 85), a price a whole number of rupees.           *)
(***************************************************************************)
EXTENDS Integers, Sequences, FiniteSets, TLC

VARIABLES
    store,        \* the rows of table menu_items (a set: every read orders them)
    nlp_loaded,   \* NLPService.nlp is a loaded spaCy model (TRUE) or None (FALSE)
    text,         \* the text being typed by the user, as sent
    typed,        \* how many phrases the text is made of
    nlp_result,   \* what process_query returned for text, or NoResult
    ratio,        \* fuzz.partial_ratio of the query in hand against each lowered name
    call,         \* the operation in hand, with its arguments, or NoCall
    result,       \* what that operation returned
    config,       \* the class attributes of Config
    prev,         \* what the handle_query call just before this one returned
    core_calls,   \* the arguments handle_query was invoked with by the operation
    calls,        \* the locals of each handle_query invocation running concurrently
    sample_data   \* the content of the dataset file sample_data.json

vars == <<store, nlp_loaded, text, typed, nlp_result, ratio, call, result,
          config, prev, core_calls, calls, sample_data>>

\* No result yet.
NoResult == [intent |-> "-"]

\* No call yet.
NoCall == [op |-> "-"]

\* ------------------------------------------------------------------ bounds

\* The longest text of the classifier's specification, in phrases.
MaxPhrases == 3

\* The longest candidate list handed to the matcher on its own.
MaxCandidates == 3

\* The longest potential_items list handed to a handler on its own.
MaxPotential == 2

\* The longest message sent to the service, in phrases.
MaxMessage == 2

\* The number of handle_query invocations that run at the same time.
MaxCalls == 2

\* The largest number of entries of the dataset file.
MaxRows == 3

\* ---------------------------------------------------------- configuration

\* Config.SIMILARITY_THRESHOLD, in hundredths.
SIMILARITY_THRESHOLD == 65

\* Config: the class attributes the core reads.
Config ==
    [SIMILARITY_THRESHOLD |-> SIMILARITY_THRESHOLD,
     RESTAURANT_INFO |->
        [name |-> "The Golden Spoon",
         address |-> "123 Main Street, Foodie District, City 560001",
         phone |-> "+91-1234567890",
         email |-> "contact@goldenspoon.com",
         opening_hours |-> [weekday |-> "11:00 AM - 10:00 PM",
                            weekend |-> "10:00 AM - 11:00 PM",
                            closed |-> "Monday"],
         cuisine_types |-> <<"Indian", "Continental", "Chinese">>,
         seating_capacity |-> 50,
         facilities |-> <<"WiFi", "Parking", "AC", "Outdoor Seating">>],
     FALLBACK_RESPONSES |->
        <<"I'm sorry, I didn't quite understand that. Could you rephrase your question?",
          "I'm not sure about that. Try asking about our menu, prices, or restaurant info!",
          "Hmm, I couldn't find information on that. Ask me about dishes, timings, or location!">>]

\* ------------------------------------------------------------- characters

Upper == <<"A","B","C","D","E","F","G","H","I","J","K","L","M",
           "N","O","P","Q","R","S","T","U","V","W","X","Y","Z">>
Letters == <<"a","b","c","d","e","f","g","h","i","j","k","l","m",
             "n","o","p","q","r","s","t","u","v","w","x","y","z">>

\* The characters of the model in their code-point order:
\* space, hyphen, A-Z, a-z.
Chars == <<" ", "-">> \o Upper \o Letters

\* The position of a character in code-point order.
Ord == [c \in {Chars[i] : i \in 1..Len(Chars)} |->
          CHOOSE i \in 1..Len(Chars) : Chars[i] = c]

\* str.lower() on one character.
LowerChar == [c \in {Chars[i] : i \in 1..Len(Chars)} |->
                IF \E k \in 1..26 : Upper[k] = c
                THEN Letters[CHOOSE k \in 1..26 : Upper[k] = c]
                ELSE c]

\* str.lower()
Lower(s) == [i \in 1..Len(s) |-> LowerChar[s[i]]]

\* A regular expression's \w, on the model's characters.
IsWordChar(c) == c \notin {" ", "-"}

\* str.isspace() on one character.
IsSpace(c) == c = " "

RECURSIVE LStrip(_)
LStrip(s) == IF s # <<>> /\ IsSpace(s[1]) THEN LStrip(Tail(s)) ELSE s

RECURSIVE RStrip(_)
RStrip(s) ==
    IF s # <<>> /\ IsSpace(s[Len(s)]) THEN RStrip(SubSeq(s, 1, Len(s) - 1)) ELSE s

\* str.strip()
Strip(s) == RStrip(LStrip(s))

\* len(text.split()): the number of maximal runs of non-space characters.
SplitLen(s) ==
    Cardinality({i \in 1..Len(s) :
                   /\ ~IsSpace(s[i])
                   /\ (i = 1 \/ IsSpace(s[i - 1]))})

\* The literal lit starts at position i of s.
At(s, i, lit) ==
    /\ i >= 1
    /\ i + Len(lit) - 1 <= Len(s)
    /\ \A k \in 1..Len(lit) : s[i + k - 1] = lit[k]

\* `lit in s`, and the SQL `s LIKE '%lit%'` on lowered operands.
Contains(s, lit) == \E i \in 1..(Len(s) - Len(lit) + 1) : At(s, i, lit)

\* A regular expression's \b just before position i of s (1..Len(s)+1).
Boundary(s, i) ==
    LET before == i > 1 /\ IsWordChar(s[i - 1])
        after  == i <= Len(s) /\ IsWordChar(s[i])
    IN  before # after

\* re.search(r'\b(a1|a2|...)', s)
SearchB(s, alts) ==
    \E i \in 1..Len(s) : Boundary(s, i) /\ \E a \in alts : At(s, i, a)

\* re.search(r'\b(a1|a2|...)\b', s)
SearchBB(s, alts) ==
    \E i \in 1..Len(s) :
        /\ Boundary(s, i)
        /\ \E a \in alts : At(s, i, a) /\ Boundary(s, i + Len(a))

\* re.search(r'\b(a1|a2|...).*(b1|b2|...)', s); the text holds no line break.
SearchBThen(s, alts, then) ==
    \E i \in 1..Len(s) :
        /\ Boundary(s, i)
        /\ \E a \in alts :
              /\ At(s, i, a)
              /\ \E j \in (i + Len(a))..Len(s) : \E b \in then : At(s, j, b)

\* ------------------------------------------------------ intent patterns

\* r'\b(hi|hello|hey|greetings|good morning|good evening)\b'
greeting_patterns(t) ==
    SearchBB(t, {<<"h","i">>, <<"h","e","l","l","o">>, <<"h","e","y">>, <<"g","r","e","e","t","i","n","g","s">>,
                 <<"g","o","o","d"," ","m","o","r","n","i","n","g">>, <<"g","o","o","d"," ","e","v","e","n","i","n","g">>})

menu_patterns(t) ==
    \* r'\b(show|display|list|what|tell).*(menu|items|dishes|food)'
    \/ SearchBThen(t, {<<"s","h","o","w">>, <<"d","i","s","p","l","a","y">>, <<"l","i","s","t">>, <<"w","h","a","t">>, <<"t","e","l","l">>},
                      {<<"m","e","n","u">>, <<"i","t","e","m","s">>, <<"d","i","s","h","e","s">>, <<"f","o","o","d">>})
    \* r'\bwhat.*(?:have|available|serve)'
    \/ SearchBThen(t, {<<"w","h","a","t">>}, {<<"h","a","v","e">>, <<"a","v","a","i","l","a","b","l","e">>, <<"s","e","r","v","e">>})
    \* r'\bmenu\b'
    \/ SearchBB(t, {<<"m","e","n","u">>})

price_patterns(t) ==
    \* r'\b(price|cost|how much|expensive|cheap)'
    \/ SearchB(t, {<<"p","r","i","c","e">>, <<"c","o","s","t">>, <<"h","o","w"," ","m","u","c","h">>, <<"e","x","p","e","n","s","i","v","e">>, <<"c","h","e","a","p">>})
    \* r'\bhow much.*cost'
    \/ SearchBThen(t, {<<"h","o","w"," ","m","u","c","h">>}, {<<"c","o","s","t">>})
    \* r'\bprice.*(?:of|for)'
    \/ SearchBThen(t, {<<"p","r","i","c","e">>}, {<<"o","f">>, <<"f","o","r">>})

details_patterns(t) ==
    \* r'\b(tell|what|about|info|details|describe)'
    \/ SearchB(t, {<<"t","e","l","l">>, <<"w","h","a","t">>, <<"a","b","o","u","t">>, <<"i","n","f","o">>, <<"d","e","t","a","i","l","s">>, <<"d","e","s","c","r","i","b","e">>})
    \* r'\b(ingredient|contain|made of|recipe)'
    \/ SearchB(t, {<<"i","n","g","r","e","d","i","e","n","t">>, <<"c","o","n","t","a","i","n">>, <<"m","a","d","e"," ","o","f">>, <<"r","e","c","i","p","e">>})
    \* r'\b(vegetarian|vegan|spicy|spice level)'
    \/ SearchB(t, {<<"v","e","g","e","t","a","r","i","a","n">>, <<"v","e","g","a","n">>, <<"s","p","i","c","y">>, <<"s","p","i","c","e"," ","l","e","v","e","l">>})

category_patterns(t) ==
    \* r'\b(appetizer|starter|main course|dessert|beverage|drink)'
    \/ SearchB(t, {<<"a","p","p","e","t","i","z","e","r">>, <<"s","t","a","r","t","e","r">>, <<"m","a","i","n"," ","c","o","u","r","s","e">>, <<"d","e","s","s","e","r","t">>,
                   <<"b","e","v","e","r","a","g","e">>, <<"d","r","i","n","k">>})
    \* r'\bshow.*(category|type)'
    \/ SearchBThen(t, {<<"s","h","o","w">>}, {<<"c","a","t","e","g","o","r","y">>, <<"t","y","p","e">>})
    \* r'\b(?:list|show).*(?:appetizer|starter|main|dessert|beverage)'
    \/ SearchBThen(t, {<<"l","i","s","t">>, <<"s","h","o","w">>},
                      {<<"a","p","p","e","t","i","z","e","r">>, <<"s","t","a","r","t","e","r">>, <<"m","a","i","n">>, <<"d","e","s","s","e","r","t">>, <<"b","e","v","e","r","a","g","e">>})

info_patterns(t) ==
    \* r'\b(address|location|where|situated)'
    \/ SearchB(t, {<<"a","d","d","r","e","s","s">>, <<"l","o","c","a","t","i","o","n">>, <<"w","h","e","r","e">>, <<"s","i","t","u","a","t","e","d">>})
    \* r'\b(timing|hours|open|close|when)'
    \/ SearchB(t, {<<"t","i","m","i","n","g">>, <<"h","o","u","r","s">>, <<"o","p","e","n">>, <<"c","l","o","s","e">>, <<"w","h","e","n">>})
    \* r'\b(contact|phone|email|call)'
    \/ SearchB(t, {<<"c","o","n","t","a","c","t">>, <<"p","h","o","n","e">>, <<"e","m","a","i","l">>, <<"c","a","l","l">>})
    \* r'\b(about|info).*restaurant'
    \/ SearchBThen(t, {<<"a","b","o","u","t">>, <<"i","n","f","o">>}, {<<"r","e","s","t","a","u","r","a","n","t">>})
    \* r'\brestaurant.*(?:info|detail|about)'
    \/ SearchBThen(t, {<<"r","e","s","t","a","u","r","a","n","t">>}, {<<"i","n","f","o">>, <<"d","e","t","a","i","l">>, <<"a","b","o","u","t">>})

\* The cascade with the details patterns tested before the price patterns.
ExtractIntentDetailsFirst(t) ==
    IF greeting_patterns(t) THEN [intent |-> "greeting", confidence |-> 90]
    ELSE IF details_patterns(t) THEN [intent |-> "item_details", confidence |-> 80]
    ELSE IF price_patterns(t) THEN [intent |-> "price_query", confidence |-> 85]
    ELSE IF category_patterns(t) THEN [intent |-> "category_query", confidence |-> 85]
    ELSE IF info_patterns(t) THEN [intent |-> "restaurant_info", confidence |-> 85]
    ELSE IF menu_patterns(t) THEN [intent |-> "menu_list", confidence |-> 85]
    ELSE IF SplitLen(t) <= 3 THEN [intent |-> "item_details", confidence |-> 60]
    ELSE [intent |-> "unknown", confidence |-> 30]

\* The cascade with the menu patterns tested before the details patterns.
ExtractIntentMenuFirst(t) ==
    IF greeting_patterns(t) THEN [intent |-> "greeting", confidence |-> 90]
    ELSE IF price_patterns(t) THEN [intent |-> "price_query", confidence |-> 85]
    ELSE IF category_patterns(t) THEN [intent |-> "category_query", confidence |-> 85]
    ELSE IF info_patterns(t) THEN [intent |-> "restaurant_info", confidence |-> 85]
    ELSE IF menu_patterns(t) THEN [intent |-> "menu_list", confidence |-> 85]
    ELSE IF details_patterns(t) THEN [intent |-> "item_details", confidence |-> 80]
    ELSE IF SplitLen(t) <= 3 THEN [intent |-> "item_details", confidence |-> 60]
    ELSE [intent |-> "unknown", confidence |-> 30]

\* NLPService._extract_intent: the cascade, first match wins.
ExtractIntent(t) ==
    IF greeting_patterns(t) THEN [intent |-> "greeting", confidence |-> 90]
    ELSE IF price_patterns(t) THEN [intent |-> "price_query", confidence |-> 85]
    ELSE IF category_patterns(t) THEN [intent |-> "category_query", confidence |-> 85]
    ELSE IF info_patterns(t) THEN [intent |-> "restaurant_info", confidence |-> 85]
    ELSE IF details_patterns(t) THEN [intent |-> "item_details", confidence |-> 80]
    ELSE IF menu_patterns(t) THEN [intent |-> "menu_list", confidence |-> 85]
    ELSE IF SplitLen(t) <= 3 THEN [intent |-> "item_details", confidence |-> 60]
    ELSE [intent |-> "unknown", confidence |-> 30]

\* ------------------------------------------------------------- entities

\* The categories list of _extract_entities, in its order.
categories == <<<<"a","p","p","e","t","i","z","e","r">>, <<"s","t","a","r","t","e","r">>, <<"m","a","i","n"," ","c","o","u","r","s","e">>, <<"d","e","s","s","e","r","t">>,
                <<"b","e","v","e","r","a","g","e">>, <<"d","r","i","n","k">>>>

\* The synonym folding of a matched category.
FoldCategory(c) ==
    IF c = <<"d","r","i","n","k">> THEN <<"b","e","v","e","r","a","g","e">>
    ELSE IF c = <<"s","t","a","r","t","e","r">> THEN <<"a","p","p","e","t","i","z","e","r">>
    ELSE c

\* The category loop: the first category of the list found in the text, folded;
\* no value when the loop ends without a match.  (An entity is a set: empty
\* when the key is not set, else holding its value.)
CategoryEntity(t) ==
    IF \E k \in 1..Len(categories) : Contains(t, categories[k])
    THEN {FoldCategory(categories[
            CHOOSE k \in 1..Len(categories) :
                /\ Contains(t, categories[k])
                /\ \A j \in 1..(k - 1) : ~Contains(t, categories[j])])}
    ELSE {}

\* The dietary rules with the non-veg rule unable to overwrite an earlier
\* vegetarian = True.
VegetarianEntityFirstWins(t) ==
    IF SearchBB(t, {<<"v","e","g","e","t","a","r","i","a","n">>, <<"v","e","g">>}) THEN {TRUE}
    ELSE IF SearchBB(t, {<<"n","o","n","-","v","e","g">>, <<"n","o","n"," ","v","e","g">>, <<"c","h","i","c","k","e","n">>, <<"m","e","a","t">>})
    THEN {FALSE} ELSE {}

\* The three dietary rules in their order (vegetarian cue, vegan cue, non-veg
\* cue); a later assignment overwrites an earlier one.
VegetarianEntity(t) ==
    LET first == IF SearchBB(t, {<<"v","e","g","e","t","a","r","i","a","n">>, <<"v","e","g">>}) THEN {TRUE} ELSE {}
    IN  IF SearchBB(t, {<<"n","o","n","-","v","e","g">>, <<"n","o","n"," ","v","e","g">>, <<"c","h","i","c","k","e","n">>, <<"m","e","a","t">>})
        THEN {FALSE} ELSE first

VeganEntity(t) == IF SearchBB(t, {<<"v","e","g","a","n">>}) THEN {TRUE} ELSE {}

SpiceEntity(t) ==
    LET first == IF SearchBB(t, {<<"s","p","i","c","y">>, <<"h","o","t">>, <<"c","h","i","l","i">>}) THEN {"hot"} ELSE {}
    IN  IF SearchBB(t, {<<"m","i","l","d">>, <<"l","e","s","s"," ","s","p","i","c","y">>, <<"n","o","t"," ","s","p","i","c","y">>})
        THEN {"mild"} ELSE first

PriceEntity(t) ==
    LET first == IF SearchBB(t, {<<"c","h","e","a","p">>, <<"a","f","f","o","r","d","a","b","l","e">>, <<"b","u","d","g","e","t">>, <<"l","o","w"," ","p","r","i","c","e">>})
                 THEN {"low"} ELSE {}
    IN  IF SearchBB(t, {<<"e","x","p","e","n","s","i","v","e">>, <<"p","r","e","m","i","u","m">>, <<"c","o","s","t","l","y">>})
        THEN {"high"} ELSE first

\* The phrases the language model knows as nouns, for doc.noun_chunks.
NounPhrases == {<<"t","e","a">>, <<"r","o","l","l">>, <<"c","h","i","c","k","e","n">>, <<"d","e","s","s","e","r","t">>, <<"m","e","n","u">>}

\* doc.noun_chunks of the text, in the order of their position: the language
\* model is a collaborator, represented by the nouns it knows.
NounStarts(t) == {i \in 1..Len(t) :
                    /\ Boundary(t, i)
                    /\ \E a \in NounPhrases : At(t, i, a) /\ Boundary(t, i + Len(a))}

RECURSIVE ChunksFrom(_, _)
ChunksFrom(t, starts) ==
    IF starts = {} THEN <<>>
    ELSE LET i == CHOOSE x \in starts : \A y \in starts : x <= y
             a == CHOOSE x \in NounPhrases : At(t, i, x) /\ Boundary(t, i + Len(x))
         IN  <<a>> \o ChunksFrom(t, starts \ {i})

noun_chunks(t) == ChunksFrom(t, NounStarts(t))

\* The potential_items key: set only by a loaded language model that found at
\* least one noun phrase.
PotentialItems(t, loaded) ==
    IF loaded /\ noun_chunks(t) # <<>> THEN {noun_chunks(t)} ELSE {}

\* A dict from its optional entries: the keys whose entry is set.
Dict(opt) ==
    [k \in {x \in DOMAIN opt : opt[x] # {}} |-> CHOOSE v \in opt[k] : TRUE]

\* NLPService._extract_entities
ExtractEntities(t, loaded) ==
    Dict([category |-> CategoryEntity(t),
          vegetarian |-> VegetarianEntity(t),
          vegan |-> VeganEntity(t),
          spice_level |-> SpiceEntity(t),
          price_preference |-> PriceEntity(t),
          potential_items |-> PotentialItems(t, loaded)])

\* NLPService.process_query
ProcessQuery(user_input, loaded) ==
    LET t == Lower(Strip(user_input))
        intent_result == ExtractIntent(t)
    IN  [intent |-> intent_result.intent,
         entities |-> ExtractEntities(t, loaded),
         confidence |-> intent_result.confidence,
         original_query |-> t]

\* ---------------------------------------------------------- the matcher

\* No item: the initial best_match of the matcher's loop.
NoItem == [name |-> <<>>, none |-> TRUE]

\* fuzz.partial_ratio(query.lower(), item['name'].lower()), 0..100: the
\* similarity library's answer, read from the answers lib it gives for the
\* query in hand, which depend on the lowered name only.
partial_ratio(lib, query, name) == lib[Lower(name)]

\* The loop of fuzzy_match_item from candidate i on, with strict `>`.
RECURSIVE BestFromStrict(_, _, _, _, _)
BestFromStrict(lib, query, menu_items, i, best) ==
    IF i > Len(menu_items) THEN best
    ELSE LET score == partial_ratio(lib, query, menu_items[i].name)
         IN  BestFromStrict(lib, query, menu_items, i + 1,
                 IF score > best.score
                 THEN [score |-> score, match |-> menu_items[i]]
                 ELSE best)

\* The loop with `>=` in place of `>`: a later candidate wins a tie.
RECURSIVE BestFromLast(_, _, _, _, _)
BestFromLast(lib, query, menu_items, i, best) ==
    IF i > Len(menu_items) THEN best
    ELSE LET score == partial_ratio(lib, query, menu_items[i].name)
         IN  BestFromLast(lib, query, menu_items, i + 1,
                 IF score >= best.score
                 THEN [score |-> score, match |-> menu_items[i]]
                 ELSE best)

\* The loop of fuzzy_match_item: best_score and best_match after it.
BestFrom(lib, query, menu_items, i, best) ==
    BestFromStrict(lib, query, menu_items, i, best)

\* The return of fuzzy_match_item with the test `best_score > 0` in place of
\* the threshold test.
FuzzyReturnAnyScore(best, threshold) ==
    IF best.score > 0
    THEN {[item |-> best.match, confidence |-> (best.score * 100) \div 100]}
    ELSE {}

\* The return of fuzzy_match_item: a result only at or above the threshold,
\* with confidence best_score / 100.0 (in hundredths), else None (no value).
FuzzyReturn(best, threshold) ==
    IF best.score >= threshold
    THEN {[item |-> best.match, confidence |-> (best.score * 100) \div 100]}
    ELSE {}

\* NLPService.fuzzy_match_item; threshold is {} for None (the default) or
\* {t}, t on the 0-100 scale.
fuzzy_match_item(lib, query, menu_items, threshold) ==
    LET th == IF threshold = {} THEN (SIMILARITY_THRESHOLD * 100) \div 100
              ELSE CHOOSE t \in threshold : TRUE
    IN  FuzzyReturn(BestFrom(lib, query, menu_items, 1,
                             [score |-> 0, match |-> NoItem]),
                    th)

\* ---------------------------------------------------------- the store

\* A row of menu_items (id and created_at are never read by the core).
Item(name, category, price, description, ingredients, veg, vegan, spice, prep) ==
    [name |-> name, category |-> category, price |-> price,
     description |-> description, ingredients |-> ingredients,
     is_vegetarian |-> veg, is_vegan |-> vegan,
     spice_level |-> spice, preparation_time |-> prep]

\* A dataset the store may have been seeded from.
Dataset == {
    Item(<<"T","e","a">>, <<"B","e","v","e","r","a","g","e">>, 100, <<"m","i","l","k"," ","t","e","a">>, <<"tea", "milk">>,
         TRUE, FALSE, "none", 5),
    Item(<<"I","c","e","d"," ","T","e","a">>, <<"B","e","v","e","r","a","g","e">>, 120, <<"c","o","l","d"," ","l","e","m","o","n"," ","t","e","a">>, <<"tea", "lemon">>,
         TRUE, TRUE, "none", 5),
    Item(<<"M","a","s","a","l","a"," ","T","e","a">>, <<"B","e","v","e","r","a","g","e">>, 101, <<"s","p","i","c","e","d"," ","m","i","l","k"," ","t","e","a">>, <<"tea", "masala">>,
         TRUE, FALSE, "mild", 7),
    Item(<<"G","r","e","e","n"," ","T","e","a">>, <<"B","e","v","e","r","a","g","e">>, 200, <<"l","i","g","h","t"," ","g","r","e","e","n"," ","t","e","a">>, <<"tea">>,
         TRUE, TRUE, "none", 4),
    Item(<<"T","e","a"," ","C","a","k","e">>, <<"D","e","s","s","e","r","t">>, 340, <<"s","p","o","n","g","e"," ","c","a","k","e">>, <<"flour", "egg">>,
         TRUE, FALSE, "none", 20),
    Item(<<"V","e","g"," ","R","o","l","l">>, <<"A","p","p","e","t","i","z","e","r">>, 120, <<"r","o","l","l"," ","s","e","r","v","e","d"," ","w","i","t","h"," ","t","e","a">>, <<"cabbage">>,
         TRUE, TRUE, "mild", 10),
    Item(<<"C","h","i","c","k","e","n"," ","R","o","l","l">>, <<"A","p","p","e","t","i","z","e","r">>, 200, <<"h","o","t"," ","c","h","i","c","k","e","n"," ","r","o","l","l">>, <<"chicken">>,
         FALSE, FALSE, "hot", 15)}

\* a < b in the order of SQLite's BINARY collation (code points, then length).
RECURSIVE StrLess(_, _)
StrLess(a, b) ==
    IF b = <<>> THEN FALSE
    ELSE IF a = <<>> THEN TRUE
    ELSE IF a[1] # b[1] THEN Ord[a[1]] < Ord[b[1]]
    ELSE StrLess(Tail(a), Tail(b))

\* k1 < k2 for two ORDER BY keys (sequences of strings of one length).
RECURSIVE KeyLess(_, _)
KeyLess(k1, k2) ==
    IF k1 = <<>> THEN FALSE
    ELSE IF k1[1] # k2[1] THEN StrLess(k1[1], k2[1])
    ELSE KeyLess(Tail(k1), Tail(k2))

\* The rows of S in the order of their keys: ORDER BY.
RECURSIVE OrderBy(_, _)
OrderBy(S, key) ==
    IF S = {} THEN <<>>
    ELSE LET m == CHOOSE x \in S : \A y \in S : ~KeyLess(key[y], key[x])
         IN  <<m>> \o OrderBy(S \ {m}, key)

CategoryName(S) == [x \in S |-> <<x.category, x.name>>]
NameOnly(S) == [x \in S |-> <<x.name>>]

\* An exception raised by the code.
Raise(kind) == [error |-> kind]

\* The store when the database file cannot be opened or holds no table
\* menu_items: every statement on it raises sqlite3.OperationalError.
Unreachable == {[table |-> "no such table: menu_items"]}

\* DatabaseManager.get_connection and cursor.execute succeed on the table.
Reachable(table) == table # Unreachable

\* DatabaseManager.get_all_items: SELECT * ... ORDER BY category, name
get_all_items(table) ==
    IF ~Reachable(table) THEN Raise("OperationalError")
    ELSE OrderBy(table, CategoryName(table))

\* DatabaseManager.get_item_by_name: WHERE LOWER(name) = LOWER(?), fetchone();
\* no value when no row matches.
get_item_by_name(table, name) ==
    IF ~Reachable(table) THEN Raise("OperationalError")
    ELSE LET rows == {x \in table : Lower(x.name) = Lower(name)}
         IN  IF rows = {} THEN {} ELSE {OrderBy(rows, NameOnly(rows))[1]}

\* DatabaseManager.get_items_by_category: WHERE LOWER(category) = LOWER(?)
\* ORDER BY name
get_items_by_category(table, category) ==
    IF ~Reachable(table) THEN Raise("OperationalError")
    ELSE LET rows == {x \in table : Lower(x.category) = Lower(category)}
         IN  OrderBy(rows, NameOnly(rows))

\* DatabaseManager.search_items: LOWER(name) LIKE LOWER('%kw%') OR
\* LOWER(description) LIKE LOWER('%kw%') ORDER BY category, name
search_items(table, keyword) ==
    IF ~Reachable(table) THEN Raise("OperationalError")
    ELSE LET rows == {x \in table :
                        \/ Contains(Lower(x.name), Lower(keyword))
                        \/ Contains(Lower(x.description), Lower(keyword))}
         IN  OrderBy(rows, CategoryName(rows))

\* DatabaseManager.get_categories: SELECT DISTINCT category ... ORDER BY category
get_categories(table) ==
    IF ~Reachable(table) THEN Raise("OperationalError")
    ELSE LET cats == {x.category : x \in table}
         IN  OrderBy(cats, [c \in cats |-> <<c>>])

\* ------------------------------------------------------------- the texts

\* What a user types, phrase by phrase.
Phrases == {<<"h","i">>, <<"h","o","w"," ","m","u","c","h">>, <<"d","e","s","s","e","r","t">>, <<"W","h","e","r","e">>, <<"s","p","i","c","y">>, <<"m","e","n","u">>,
            <<"t","e","a">>, <<"v","e","g">>, <<"c","h","i","c","k","e","n">>, <<"v","e","g","a","n">>, <<"i"," ","w","a","n","t"," ","a">>, <<>>}

\* A text of n phrases followed by one more phrase, a space between two
\* phrases (an empty phrase so gives leading, trailing and double spaces).
Append1(t, n, p) == IF n = 0 THEN p ELSE t \o <<" ">> \o p

\* ------------------------------------------------- the classifier alone

InitNLP ==
    /\ store = {}
    /\ nlp_loaded \in BOOLEAN
    /\ text = <<>>
    /\ typed = 0
    /\ nlp_result = NoResult
    /\ ratio = <<>>
    /\ call = NoCall
    /\ result = NoResult
    /\ config = Config
    /\ prev = NoResult
    /\ core_calls = <<>>
    /\ calls = <<>>
    /\ sample_data = <<>>

TypePhrase(p) ==
    /\ typed < MaxPhrases
    /\ text' = Append1(text, typed, p)
    /\ typed' = typed + 1
    /\ nlp_result' = NoResult
    /\ UNCHANGED <<sample_data, calls, store, nlp_loaded, ratio, call, result, config, prev, core_calls>>

Classify ==
    /\ typed > 0
    /\ nlp_result = NoResult
    /\ nlp_result' = ProcessQuery(text, nlp_loaded)
    /\ UNCHANGED <<sample_data, calls, store, nlp_loaded, text, typed, ratio, call, result, config, prev,
                   core_calls>>

NextNLP ==
    \/ \E p \in Phrases : TypePhrase(p)
    \/ Classify

SpecNLP == InitNLP /\ [][NextNLP]_vars

\* ----------------------------------------------------------- handlers

\* str.title() on a lowered category: the first letter of each word in upper case.
Title(s) ==
    [i \in 1..Len(s) |->
        IF (i = 1 \/ ~IsWordChar(s[i - 1])) /\ \E k \in 1..26 : Letters[k] = s[i]
        THEN Upper[CHOOSE k \in 1..26 : Letters[k] = s[i]]
        ELSE LowerChar[s[i]]]

\* `'key' in entities and entities['key']`
Truthy(entities, key) == key \in DOMAIN entities /\ entities[key]

\* items[:n]
Take(items, n) == SubSeq(items, 1, IF Len(items) < n THEN Len(items) ELSE n)

\* QueryService._format_menu_items
FormatMenuItems(items) ==
    [i \in 1..Len(items) |->
        [name |-> items[i].name, price |-> items[i].price,
         category |-> items[i].category, description |-> items[i].description,
         vegetarian |-> items[i].is_vegetarian, vegan |-> items[i].is_vegan,
         spice_level |-> items[i].spice_level]]

\* QueryService._format_item_details: the parts of the text.
FormatItemDetails(item) ==
    [msg |-> "item", name |-> item.name, price |-> item.price,
     veg_tag |-> IF item.is_vegetarian THEN "Vegetarian" ELSE "Non-Vegetarian",
     vegan_tag |-> IF item.is_vegan THEN "Vegan" ELSE "",
     spice_tag |-> IF item.spice_level # "none" THEN item.spice_level ELSE "",
     description |-> item.description, ingredients |-> item.ingredients,
     preparation_time |-> item.preparation_time]

\* The vegetarian filter of _handle_menu_list left out.
VegetarianFilterOff(items, entities) == items

\* The vegetarian filter of _handle_menu_list.
VegetarianFilter(items, entities) ==
    IF Truthy(entities, "vegetarian")
    THEN SelectSeq(items, LAMBDA item : item.is_vegetarian)
    ELSE items

\* The vegan filter of _handle_menu_list.
VeganFilter(items, entities) ==
    IF Truthy(entities, "vegan")
    THEN SelectSeq(items, LAMBDA item : item.is_vegan)
    ELSE items

\* QueryService._handle_menu_list
HandleMenuList(table, query, entities) ==
    IF ~Reachable(table) THEN get_all_items(table) ELSE
    LET selected == IF "category" \in DOMAIN entities
                    THEN get_items_by_category(table, entities.category)
                    ELSE get_all_items(table)
        items == VeganFilter(VegetarianFilter(selected, entities), entities)
        label == [msg |-> IF "category" \in DOMAIN entities
                          THEN "Here are our {category_name} items:"
                          ELSE "Here's our complete menu:",
                  category_name |-> IF "category" \in DOMAIN entities
                                    THEN Title(entities.category) ELSE <<>>,
                  vegetarian_options |-> Truthy(entities, "vegetarian"),
                  vegan_options |-> Truthy(entities, "vegan")]
    IN  IF items = <<>>
        THEN [response |->
                [msg |-> "Sorry, I couldn't find any items matching your criteria."],
              data |-> <<>>]
        ELSE [response |-> label, data |-> FormatMenuItems(items),
              count |-> Len(items)]

\* The reply of _handle_item_details for one item.
SingleItem(item) ==
    [response |-> FormatItemDetails(item), data |-> item, matched_item |-> item.name]

\* The disambiguation reply with every hit, not the first five.
MultipleItemsAll(items) ==
    [response |-> [msg |-> "I found multiple items. Did you mean: {names}?",
                   names |-> [i \in 1..Len(items) |-> items[i].name]],
     data |-> items]

\* The disambiguation reply of _handle_item_details: items[:5].
MultipleItems(items) ==
    [response |-> [msg |-> "I found multiple items. Did you mean: {names}?",
                   names |-> [i \in 1..Len(Take(items, 5)) |-> items[i].name]],
     data |-> Take(items, 5)]

\* The loop over entities['potential_items'] from phrase i on: the reply of
\* the first phrase with a hit, no value when the loop ends.
RECURSIVE KeywordSearch(_, _, _)
KeywordSearch(table, potential_items, i) ==
    IF i > Len(potential_items) THEN {}
    ELSE LET items == search_items(table, potential_items[i])
         IN  IF items # <<>>
             THEN IF Len(items) = 1 THEN {SingleItem(items[1])}
                                    ELSE {MultipleItems(items)}
             ELSE KeywordSearch(table, potential_items, i + 1)

\* QueryService._handle_item_details
HandleItemDetails(table, lib, query, entities) ==
    IF ~Reachable(table) THEN get_all_items(table) ELSE
    LET all_items == get_all_items(table)
        match_result == fuzzy_match_item(lib, query, all_items, {})
        found == IF "potential_items" \in DOMAIN entities
                 THEN KeywordSearch(table, entities.potential_items, 1)
                 ELSE {}
    IN  IF match_result # {} /\ (CHOOSE m \in match_result : TRUE).confidence > 60
        THEN LET m == CHOOSE x \in match_result : TRUE
             IN  [response |-> FormatItemDetails(m.item), data |-> m.item,
                  matched_item |-> m.item.name, match_confidence |-> m.confidence]
        ELSE IF found # {} THEN CHOOSE r \in found : TRUE
        ELSE [response |-> [msg |-> "I couldn't find that item. Try asking about specific dishes like 'pizza' or 'chicken tikka'."],
              suggestions |-> <<"Show menu", "What are your appetizers?",
                                "Tell me about desserts">>]

\* sum(prices)
RECURSIVE Sum(_)
Sum(prices) == IF prices = <<>> THEN 0 ELSE prices[1] + Sum(Tail(prices))

\* n / d rounded to a whole number, a tie to the even neighbour: round() and
\* the format :.0f on a quotient of whole numbers.
RoundHalfEven(n, d) ==
    LET q == n \div d
        r == n % d
    IN  IF 2 * r < d THEN q
        ELSE IF 2 * r > d THEN q + 1
        ELSE IF q % 2 = 0 THEN q ELSE q + 1

\* The price range of _handle_price_query: min(), max() and the mean of the
\* prices, the mean to a whole rupee in the text (:.0f) and to two decimals in
\* the data (round(avg_price, 2), here in hundredths of a rupee).  min() of an
\* empty list raises ValueError.
PriceRange(items, entities) ==
    LET prices == [i \in 1..Len(items) |-> items[i].price]
        Min == CHOOSE p \in {prices[i] : i \in 1..Len(prices)} :
                  \A k \in 1..Len(prices) : p <= prices[k]
        Max == CHOOSE p \in {prices[i] : i \in 1..Len(prices)} :
                  \A k \in 1..Len(prices) : p >= prices[k]
    IN  IF prices = <<>> THEN Raise("ValueError")
        ELSE [response |-> [msg |-> "Our prices{category_text} range from ...",
                            category_text |-> IF "category" \in DOMAIN entities
                                              THEN entities.category ELSE <<>>,
                            min |-> Min, max |-> Max,
                            average |-> RoundHalfEven(Sum(prices), Len(prices))],
              data |-> [min |-> Min, max |-> Max,
                        average |-> RoundHalfEven(100 * Sum(prices), Len(prices))]]

\* The general price query without its `if not items` test.
GeneralPriceUnguarded(table, all_items, entities) ==
    PriceRange(IF "category" \in DOMAIN entities
               THEN get_items_by_category(table, entities.category)
               ELSE all_items, entities)

\* The general price query of _handle_price_query: the category's items if a
\* category entity is present, else all items.
GeneralPrice(table, all_items, entities) ==
    LET items == IF "category" \in DOMAIN entities
                 THEN get_items_by_category(table, entities.category)
                 ELSE all_items
    IN  IF items = <<>>
        THEN [response |-> [msg |-> "I couldn't find pricing for that."]]
        ELSE PriceRange(items, entities)

\* QueryService._handle_price_query
HandlePriceQuery(table, lib, query, entities) ==
    IF ~Reachable(table) THEN get_all_items(table) ELSE
    LET all_items == get_all_items(table)
        match_result == fuzzy_match_item(lib, query, all_items, {})
    IN  IF match_result # {}
        THEN LET item == (CHOOSE m \in match_result : TRUE).item
             IN  [response |-> [msg |-> "{name} costs {price}.",
                                name |-> item.name, price |-> item.price],
                  data |-> [name |-> item.name, price |-> item.price,
                            category |-> item.category]]
        ELSE GeneralPrice(table, all_items, entities)

\* The reply of _handle_category_query that lists every category.
AllCategories(table) ==
    [response |-> [msg |-> "We have these categories: {categories}.",
                   categories |-> get_categories(table)],
     data |-> [categories |-> get_categories(table)]]

\* The category handler without its `if items` test.
HandleCategoryQueryNoTest(table, query, entities) ==
    IF "category" \in DOMAIN entities /\ entities.category # <<>>
    THEN LET items == get_items_by_category(table, entities.category)
         IN  [response |-> [msg |-> "Here are our {category} items:",
                            category |-> Title(entities.category)],
              data |-> FormatMenuItems(items), count |-> Len(items)]
    ELSE AllCategories(table)

\* QueryService._handle_category_query
HandleCategoryQuery(table, query, entities) ==
    IF ~Reachable(table) THEN get_categories(table) ELSE
    IF "category" \in DOMAIN entities /\ entities.category # <<>>
       /\ get_items_by_category(table, entities.category) # <<>>
    THEN LET items == get_items_by_category(table, entities.category)
         IN  [response |-> [msg |-> "Here are our {category} items:",
                            category |-> Title(entities.category)],
              data |-> FormatMenuItems(items), count |-> Len(items)]
    ELSE AllCategories(table)

\* The greetings list of _handle_greeting.
greetings ==
    <<"Hello! Welcome to The Golden Spoon. How can I help you today?",
      "Hi there! I'm DineBot, your virtual assistant. Ask me about our menu!",
      "Greetings! Looking for something delicious? I can help you explore our menu.">>

\* random.choice(seq), the random source drawing rnd.
RandomChoice(seq, rnd) == seq[((rnd - 1) % Len(seq)) + 1]

\* The greeting handler with a suggestion list that is drawn at random too.
HandleGreetingShuffled(rnd) ==
    [response |-> RandomChoice(greetings, rnd),
     suggestions |-> <<RandomChoice(<<"Show me the menu", "What are your timings?",
                                      "Tell me about desserts">>, rnd)>>]

\* QueryService._handle_greeting
HandleGreeting(rnd) ==
    [response |-> RandomChoice(greetings, rnd),
     suggestions |-> <<"Show me the menu", "What are your timings?",
                       "Tell me about desserts">>]

\* NLPService.extract_info_type
extract_info_type(t) ==
    IF SearchB(t, {<<"t","i","m","i","n","g">>, <<"h","o","u","r","s">>, <<"o","p","e","n">>, <<"c","l","o","s","e">>, <<"w","h","e","n">>}) THEN "hours"
    ELSE IF SearchB(t, {<<"a","d","d","r","e","s","s">>, <<"l","o","c","a","t","i","o","n">>, <<"w","h","e","r","e">>, <<"s","i","t","u","a","t","e","d">>})
    THEN "address"
    ELSE IF SearchB(t, {<<"c","o","n","t","a","c","t">>, <<"p","h","o","n","e">>, <<"e","m","a","i","l">>, <<"c","a","l","l">>}) THEN "contact"
    ELSE "general"

\* QueryService._handle_restaurant_info: the block named by the info type,
\* built from the configuration, which is attached whole as data.
HandleRestaurantInfo(cfg, query) ==
    LET info_type == extract_info_type(query)
        restaurant == cfg.RESTAURANT_INFO
        hours == restaurant.opening_hours
    IN  [response |->
            IF info_type = "hours"
            THEN [block |-> "Opening Hours", weekday |-> hours.weekday,
                  weekend |-> hours.weekend, closed |-> hours.closed]
            ELSE IF info_type = "address"
            THEN [block |-> "Location", name |-> restaurant.name,
                  address |-> restaurant.address]
            ELSE IF info_type = "contact"
            THEN [block |-> "Contact Us", phone |-> restaurant.phone,
                  email |-> restaurant.email]
            ELSE [block |-> "General", name |-> restaurant.name,
                  address |-> restaurant.address, phone |-> restaurant.phone,
                  weekday |-> hours.weekday, closed |-> hours.closed,
                  cuisine_types |-> restaurant.cuisine_types,
                  seating_capacity |-> restaurant.seating_capacity,
                  facilities |-> restaurant.facilities],
         data |-> restaurant]

\* QueryService._handle_unknown
HandleUnknown(cfg, rnd) ==
    [response |-> RandomChoice(cfg.FALLBACK_RESPONSES, rnd),
     suggestions |-> <<"Show me the menu", "What are your timings?",
                       "Tell me about your location">>]

\* handlers.get(intent, self._handle_unknown)(user_input, entities)
Dispatch(table, cfg, lib, rnd, intent, user_input, entities) ==
    IF intent = "greeting" THEN HandleGreeting(rnd)
    ELSE IF intent = "menu_list" THEN HandleMenuList(table, user_input, entities)
    ELSE IF intent = "item_details"
    THEN HandleItemDetails(table, lib, user_input, entities)
    ELSE IF intent = "price_query"
    THEN HandlePriceQuery(table, lib, user_input, entities)
    ELSE IF intent = "category_query"
    THEN HandleCategoryQuery(table, user_input, entities)
    ELSE IF intent = "restaurant_info" THEN HandleRestaurantInfo(cfg, user_input)
    ELSE HandleUnknown(cfg, rnd)

\* The metadata step with the confidence of the handler's match, when the
\* handler reported one, in place of the extractor's.
WithMatchConfidence(r, intent, confidence) ==
    [k \in DOMAIN r \cup {"intent", "confidence"} |->
        IF k = "intent" THEN intent
        ELSE IF k = "confidence"
        THEN IF "match_confidence" \in DOMAIN r THEN r.match_confidence
             ELSE confidence
        ELSE r[k]]

\* result['intent'] = intent; result['confidence'] = confidence
WithMetadata(r, intent, confidence) ==
    [k \in DOMAIN r \cup {"intent", "confidence"} |->
        IF k = "intent" THEN intent
        ELSE IF k = "confidence" THEN confidence
        ELSE r[k]]

\* QueryService.handle_query: the envelope returned, or the exception a
\* handler raised.
handle_query(table, cfg, loaded, lib, rnd, user_input) ==
    LET nlp == ProcessQuery(user_input, loaded)
        r == Dispatch(table, cfg, lib, rnd, nlp.intent, user_input, nlp.entities)
    IN  IF "error" \in DOMAIN r THEN r
        ELSE WithMetadata(r, nlp.intent, nlp.confidence)

\* A read of the table that deletes what it read.
SelectAndDelete(table) == {}

\* The table after a read operation of DatabaseManager: a SELECT on a
\* connection of its own, closed without a commit.
AfterSelect(table) == table

\* -------------------------------------------------------- the endpoints

\* A JSON value of a request body.
JsonNull == [json |-> "null"]
JsonNumber(n) == [json |-> "number", value |-> n]
JsonString(str) == [json |-> "string", value |-> str]
JsonObject(members) == [json |-> "object", members |-> members]

\* jsonify(body), status
Reply(status, body) == [status |-> status, body |-> body]

\* A reply and the arguments handle_query was invoked with to make it.
Served(reply, core) == [reply |-> reply, core |-> core]

\* The tail of chat with an except clause that reports what was raised.
ChatTextLeaky(table, cfg, loaded, lib, rnd, message) ==
    LET user_message == Strip(message)
    IN  IF user_message = <<>>
        THEN Served(Reply(400, [error |-> "Empty message",
                                response |-> "Please type something!"]), <<>>)
        ELSE LET res == handle_query(table, cfg, loaded, lib, rnd, user_message)
             IN  IF "error" \in DOMAIN res
                 THEN Served(Reply(500, [error |-> res.error,
                                         response |-> "Sorry, something went wrong."]),
                             <<user_message>>)
                 ELSE Served(Reply(200, res), <<user_message>>)

\* The tail of chat for a message that is a string: strip(), the empty test,
\* handle_query, and the except clause around it.
ChatText(table, cfg, loaded, lib, rnd, message) ==
    LET user_message == Strip(message)
    IN  IF user_message = <<>>
        THEN Served(Reply(400, [error |-> "Empty message",
                                response |-> "Please type something!"]), <<>>)
        ELSE LET res == handle_query(table, cfg, loaded, lib, rnd, user_message)
             IN  IF "error" \in DOMAIN res
                 THEN Served(Reply(500,
                         [error |-> "Internal server error",
                          response |-> "Sorry, something went wrong. Please try again!"]),
                         <<user_message>>)
                 ELSE Served(Reply(200, res), <<user_message>>)

\* app.chat on the value request.get_json() gave.  A message that is no
\* string has no strip(): the AttributeError is caught by the except clause.
Chat(table, cfg, loaded, lib, rnd, data) ==
    IF \/ data.json = "null"
       \/ data.json = "object" /\ DOMAIN data.members = {}
       \/ data.json = "object" /\ "message" \notin DOMAIN data.members
    THEN Served(Reply(400, [error |-> "No message provided",
                            response |-> "Please send a message!"]), <<>>)
    ELSE IF data.members.message.json # "string"
    THEN Served(Reply(500,
            [error |-> "Internal server error",
             response |-> "Sorry, something went wrong. Please try again!"]), <<>>)
    ELSE ChatText(table, cfg, loaded, lib, rnd, data.members.message.value)

\* app.get_item: GET /api/menu/<item_name>
GetItem(table, item_name) ==
    LET item == get_item_by_name(table, item_name)
    IN  IF ~Reachable(table)
        THEN Reply(500, [error |-> "Failed to fetch item details"])
        ELSE IF item # {}
        THEN Reply(200, CHOOSE x \in item : TRUE)
        ELSE Reply(404, [error |-> "Item not found", message |-> item_name])

\* --------------------------------------------------- the matcher alone

\* The scores the similarity library may give: none, just below and at the
\* configured threshold, and a perfect match.
Scores == {0, 64, 65, 100}

\* The thresholds a caller passes: None, or one on the 0-100 scale.
Thresholds == {{}, {50}, {100}}

\* The items a candidate list is made of.
Candidates == {x \in Dataset : x.category = <<"A","p","p","e","t","i","z","e","r">> \/ x.name = <<"T","e","a">>}

\* The answers of the similarity library for a query, by lowered name.
Ratios(S) == [{Lower(x.name) : x \in S} -> Scores]

\* The candidate lists of at most n items.
RECURSIVE Lists(_)
Lists(n) ==
    IF n = 0 THEN {<<>>}
    ELSE Lists(n - 1) \cup
         {Append(l, x) : l \in {y \in Lists(n - 1) : Len(y) = n - 1}, x \in Candidates}

InitFuzzy ==
    /\ store = {}
    /\ nlp_loaded \in BOOLEAN
    /\ text = <<>>
    /\ typed = 0
    /\ nlp_result = NoResult
    /\ ratio \in Ratios(Candidates)
    /\ call = NoCall
    /\ result = NoResult
    /\ config = Config
    /\ prev = NoResult
    /\ core_calls = <<>>
    /\ calls = <<>>
    /\ sample_data = <<>>

\* A direct call fuzzy_match_item(query, menu_items, threshold).
CallFuzzyMatch(menu_items, threshold) ==
    /\ call = NoCall
    /\ call' = [op |-> "fuzzy_match_item", menu_items |-> menu_items,
                threshold |-> threshold]
    /\ result' = [value |-> fuzzy_match_item(ratio, text, menu_items, threshold)]
    /\ UNCHANGED <<sample_data, calls, store, nlp_loaded, text, typed, nlp_result, ratio, config, prev,
                   core_calls>>

NextFuzzy ==
    \E l \in Lists(MaxCandidates), th \in Thresholds : CallFuzzyMatch(l, th)

SpecFuzzy == InitFuzzy /\ [][NextFuzzy]_vars

\* -------------------------------------------------- the handlers alone

\* The values of the category entity: not set, or a folded category.
CategoryValues ==
    {{}} \cup {{FoldCategory(categories[k])} : k \in 1..Len(categories)}

\* The phrases of a potential_items list.
Keywords == {<<"t","e","a">>, <<"r","o","l","l">>, <<"m","e","n","u">>}

\* The potential_items lists of at most n phrases.
RECURSIVE PhraseLists(_)
PhraseLists(n) ==
    IF n = 0 THEN {<<>>}
    ELSE PhraseLists(n - 1) \cup
         {Append(l, k) : l \in {y \in PhraseLists(n - 1) : Len(y) = n - 1},
                         k \in Keywords}

\* The values of the potential_items entity: not set, or a non-empty list.
PotentialValues == {{}} \cup {{l} : l \in PhraseLists(MaxPotential) \ {<<>>}}

\* The answers of the similarity library in which at most one name of S scores
\* above 0.
OneRatios(S) ==
    LET names == {Lower(x.name) : x \in S}
    IN  {[n \in names |-> 0]} \cup
        {[n \in names |-> IF n = m THEN sc ELSE 0] : m \in names, sc \in Scores \ {0}}

InitHandlers ==
    /\ store \in SUBSET Dataset
    /\ nlp_loaded = FALSE
    /\ text = <<>>
    /\ typed = 0
    /\ nlp_result = NoResult
    /\ ratio = <<>>
    /\ call = NoCall
    /\ result = NoResult
    /\ config = Config
    /\ prev = NoResult
    /\ core_calls = <<>>
    /\ calls = <<>>
    /\ sample_data = <<>>

\* A direct call _handle_menu_list(query, entities).
CallMenuList(entities) ==
    /\ call = NoCall
    /\ call' = [op |-> "menu_list", entities |-> entities]
    /\ result' = HandleMenuList(store, text, entities)
    /\ UNCHANGED <<sample_data, calls, store, nlp_loaded, text, typed, nlp_result, ratio, config, prev,
                   core_calls>>

\* A direct call _handle_item_details(query, entities), the similarity
\* library answering r for the query.
CallItemDetails(r, entities) ==
    /\ call = NoCall
    /\ ratio' = r
    /\ call' = [op |-> "item_details", entities |-> entities]
    /\ result' = HandleItemDetails(store, r, text, entities)
    /\ UNCHANGED <<sample_data, calls, store, nlp_loaded, text, typed, nlp_result, config, prev, core_calls>>

\* A direct call _handle_price_query(query, entities).
CallPriceQuery(r, entities) ==
    /\ call = NoCall
    /\ ratio' = r
    /\ call' = [op |-> "price_query", entities |-> entities]
    /\ result' = HandlePriceQuery(store, r, text, entities)
    /\ UNCHANGED <<sample_data, calls, store, nlp_loaded, text, typed, nlp_result, config, prev, core_calls>>

\* A direct call _handle_category_query(query, entities).
CallCategoryQuery(entities) ==
    /\ call = NoCall
    /\ call' = [op |-> "category_query", entities |-> entities]
    /\ result' = HandleCategoryQuery(store, text, entities)
    /\ UNCHANGED <<sample_data, calls, store, nlp_loaded, text, typed, nlp_result, ratio, config, prev,
                   core_calls>>

NextHandlers ==
    \/ \E c \in CategoryValues, v \in {{}, {TRUE}, {FALSE}}, g \in {{}, {TRUE}} :
          CallMenuList(Dict([category |-> c, vegetarian |-> v, vegan |-> g]))
    \/ \E r \in OneRatios(store), p \in PotentialValues :
          CallItemDetails(r, Dict([potential_items |-> p]))
    \/ \E r \in OneRatios(store), c \in CategoryValues :
          CallPriceQuery(r, Dict([category |-> c]))
    \/ \E c \in CategoryValues : CallCategoryQuery(Dict([category |-> c]))

SpecHandlers == InitHandlers /\ [][NextHandlers]_vars

\* ------------------------------------------------------- the service

\* The request bodies sent to the chat endpoint with message t: no JSON value,
\* an object without members, one without a message, one whose message is
\* null or a number, and one whose message is t.
Bodies(t) ==
    {JsonNull, JsonObject(<<>>), JsonObject([text |-> JsonString(t)]),
     JsonObject([message |-> JsonNull]), JsonObject([message |-> JsonNumber(42)]),
     JsonObject([message |-> JsonString(t)])}

\* The names asked for by a direct lookup.
LookupNames == {<<"t","e","a">>, <<"D","a","l">>}

\* The phrases a message to the service is made of.
Words ==
    {<<"h","i">>, <<"h","o","w"," ","m","u","c","h">>, <<"d","e","s","s","e","r","t">>, <<"W","h","e","r","e">>, <<"m","e","n","u">>, <<"t","e","a">>, <<"i"," ","w","a","n","t"," ","a">>, <<>>}

\* The answers of the similarity library for one query against the names of
\* S: no name resembles it, or the name Tea does fully.
Answers(S) ==
    LET names == IF Reachable(S) THEN {Lower(x.name) : x \in S} ELSE {}
    IN  {[n \in names |-> 0]} \cup
        {[n \in names |-> IF n = m THEN 100 ELSE 0] : m \in names \cap {<<"t","e","a">>}}

\* The values random.choice draws from a list of three.
Draws == 1..3

\* After construction: the store is empty (no dataset was found) or holds the
\* dataset; the language model is loaded or not.
Init ==
    /\ store \in {{}, Dataset}
    /\ nlp_loaded \in BOOLEAN
    /\ text = <<>>
    /\ typed = 0
    /\ nlp_result = NoResult
    /\ ratio \in Answers(store)
    /\ call = NoCall
    /\ result = NoResult
    /\ config = Config
    /\ prev = NoResult
    /\ core_calls = <<>>
    /\ calls = <<>>
    /\ sample_data = <<>>

\* The user adds a phrase to the message; lib is what the similarity library
\* answers for the new text, whenever it is asked.
Compose(p, lib) ==
    /\ call = NoCall
    /\ typed < MaxMessage
    /\ text' = Append1(text, typed, p)
    /\ typed' = typed + 1
    /\ ratio' = lib
    /\ UNCHANGED <<sample_data, calls, store, nlp_loaded, nlp_result, call, result, config, prev,
                   core_calls>>

\* A call handle_query(text), possibly right after another one.
HandleQuery(rnd) ==
    /\ typed > 0
    /\ call = NoCall \/ call.op = "handle_query"
    /\ call' = [op |-> "handle_query", user_input |-> text]
    /\ result' = handle_query(store, config, nlp_loaded, ratio, rnd, text)
    /\ prev' = IF call = NoCall THEN NoResult ELSE result
    /\ core_calls' = <<text>>
    /\ store' = AfterSelect(store)
    /\ UNCHANGED <<sample_data, calls, nlp_loaded, text, typed, nlp_result, ratio, config>>

\* A request POST /api/chat with body data.
PostChat(rnd, data) ==
    /\ call = NoCall
    /\ call' = [op |-> "chat", data |-> data]
    /\ LET served == Chat(store, config, nlp_loaded, ratio, rnd, data)
       IN  /\ result' = served.reply
           /\ core_calls' = served.core
    /\ store' = AfterSelect(store)
    /\ UNCHANGED <<sample_data, calls, nlp_loaded, text, typed, nlp_result, ratio, config, prev>>

\* A request GET /api/menu/<item_name>.
GetMenuItem(item_name) ==
    /\ call = NoCall
    /\ call' = [op |-> "get_item", item_name |-> item_name]
    /\ result' = GetItem(store, item_name)
    /\ store' = AfterSelect(store)
    /\ UNCHANGED <<sample_data, calls, nlp_loaded, text, typed, nlp_result, ratio, config, prev,
                   core_calls>>

\* A call of QueryService.get_menu_items.
GetMenuItems ==
    /\ call = NoCall
    /\ call' = [op |-> "get_menu_items"]
    /\ result' = [value |-> get_all_items(store)]
    /\ store' = AfterSelect(store)
    /\ UNCHANGED <<sample_data, calls, nlp_loaded, text, typed, nlp_result, ratio, config, prev,
                   core_calls>>

\* A call of QueryService.get_item_details.
GetItemDetails(item_name) ==
    /\ call = NoCall
    /\ call' = [op |-> "get_item_details", item_name |-> item_name]
    /\ result' = [value |-> get_item_by_name(store, item_name)]
    /\ store' = AfterSelect(store)
    /\ UNCHANGED <<sample_data, calls, nlp_loaded, text, typed, nlp_result, ratio, config, prev,
                   core_calls>>

\* A call of QueryService.get_restaurant_info.
GetRestaurantInfo ==
    /\ call = NoCall
    /\ call' = [op |-> "get_restaurant_info"]
    /\ result' = [value |-> config.RESTAURANT_INFO]
    /\ UNCHANGED <<sample_data, calls, store, nlp_loaded, text, typed, nlp_result, ratio, config, prev,
                   core_calls>>

\* A call of DatabaseManager.get_categories.
GetCategories ==
    /\ call = NoCall
    /\ call' = [op |-> "get_categories"]
    /\ result' = [value |-> get_categories(store)]
    /\ store' = AfterSelect(store)
    /\ UNCHANGED <<sample_data, calls, nlp_loaded, text, typed, nlp_result, ratio, config, prev,
                   core_calls>>

\* The caller has its answer; the service waits for the next call.
Return ==
    /\ call # NoCall
    /\ call' = NoCall
    /\ result' = NoResult
    /\ prev' = NoResult
    /\ core_calls' = <<>>
    /\ UNCHANGED <<sample_data, calls, store, nlp_loaded, text, typed, nlp_result, ratio, config>>

Next ==
    \/ \E p \in Words, lib \in Answers(store) : Compose(p, lib)
    \/ \E rnd \in Draws : HandleQuery(rnd)
    \/ \E rnd \in Draws, data \in Bodies(text) : PostChat(rnd, data)
    \/ \E n \in LookupNames : GetMenuItem(n)
    \/ GetMenuItems
    \/ \E n \in LookupNames : GetItemDetails(n)
    \/ GetRestaurantInfo
    \/ GetCategories
    \/ Return

Spec == Init /\ [][Next]_vars

\* ------------------------------------------- the service on a lost store

\* After construction on a database that cannot be read: initialize_database
\* found no table to fill, or the file was removed after the start.
InitFaults ==
    /\ store = Unreachable
    /\ nlp_loaded \in BOOLEAN
    /\ text = <<>>
    /\ typed = 0
    /\ nlp_result = NoResult
    /\ ratio \in Answers(store)
    /\ call = NoCall
    /\ result = NoResult
    /\ config = Config
    /\ prev = NoResult
    /\ core_calls = <<>>
    /\ calls = <<>>
    /\ sample_data = <<>>

SpecFaults == InitFaults /\ [][Next]_vars

\* ------------------------------------------------------------ seeding

\* The columns the INSERT statement of populate_sample_data takes from an entry.
Columns ==
    {"name", "category", "price", "description", "ingredients", "is_vegetarian",
     "is_vegan", "spice_level", "preparation_time"}

\* The execute of entry i of the dataset on a connection with rows pending:
\* KeyError for an entry that lacks a column, IntegrityError for a name that
\* is in the table already (name TEXT NOT NULL UNIQUE), OperationalError when
\* the database fails at this statement; no value when the row was added.
InsertError(entry, pending, io_fails) ==
    IF DOMAIN entry # Columns THEN {"KeyError"}
    ELSE IF \E j \in 1..Len(pending) : pending[j].name = entry.name
    THEN {"IntegrityError"}
    ELSE IF io_fails THEN {"OperationalError"}
    ELSE {}

\* The loop over data['menu_items'] from entry i on: the rows pending in the
\* transaction of the connection, and what was raised, if anything.
RECURSIVE InsertFrom(_, _, _, _)
InsertFrom(menu_items, i, pending, io_fail) ==
    IF i > Len(menu_items) THEN [pending |-> pending, raised |-> {}]
    ELSE LET e == InsertError(menu_items[i], pending, io_fail = i)
         IN  IF e # {} THEN [pending |-> pending, raised |-> e]
             ELSE InsertFrom(menu_items, i + 1, Append(pending, menu_items[i]),
                             io_fail)

\* conn.commit(): the pending rows become rows of the table.
Commit(table, pending) == table \cup {pending[j] : j \in 1..Len(pending)}

\* A connection in autocommit mode: every INSERT is a row of the table at
\* once, and closing the connection keeps them.
CloseKeepsPending(table, pending) == table \cup {pending[j] : j \in 1..Len(pending)}

\* conn.close() in the finally clause, without a commit: the transaction that
\* the first INSERT opened is rolled back.
CloseWithoutCommit(table, pending) == table

\* The table and the outcome of DatabaseManager.populate_sample_data for the
\* dataset file, with the database failing at statement io_fail (0: never).
populate_sample_data(table, file, io_fail) ==
    IF table # {}
    THEN [table |-> table, outcome |-> "skipped", pending |-> 0]
    ELSE IF file.kind = "missing"
    THEN [table |-> CloseWithoutCommit(table, <<>>),
          outcome |-> "FileNotFoundError", pending |-> 0]
    ELSE IF file.kind = "invalid"
    THEN [table |-> CloseWithoutCommit(table, <<>>),
          outcome |-> "JSONDecodeError", pending |-> 0]
    ELSE LET run == InsertFrom(file.menu_items, 1, <<>>, io_fail)
         IN  IF run.raised = {}
             THEN [table |-> Commit(table, run.pending), outcome |-> "loaded",
                   pending |-> Len(run.pending)]
             ELSE [table |-> CloseWithoutCommit(table, run.pending),
                   outcome |-> CHOOSE e \in run.raised : TRUE,
                   pending |-> Len(run.pending)]

\* An entry of the dataset file that has a name and nothing else.
Incomplete == [name |-> <<"D","a","l">>]

\* The entries a dataset file is made of.
Entries ==
    {x \in Dataset : x.name \in {<<"T","e","a">>, <<"V","e","g"," ","R","o","l","l">>, <<"C","h","i","c","k","e","n"," ","R","o","l","l">>}}
        \cup {Incomplete}

\* The lists of at most n entries.
RECURSIVE EntryLists(_)
EntryLists(n) ==
    IF n = 0 THEN {<<>>}
    ELSE EntryLists(n - 1) \cup
         {Append(l, e) : l \in {m \in EntryLists(n - 1) : Len(m) = n - 1},
                         e \in Entries}

\* The dataset files: none, one that is no JSON, or a list of entries.
Files ==
    {[kind |-> "missing"], [kind |-> "invalid"]} \cup
    {[kind |-> "json", menu_items |-> l] : l \in EntryLists(MaxRows)}

\* After create_tables on a new database: the table is empty; the dataset
\* file is what it is.
InitSeed ==
    /\ store = {}
    /\ nlp_loaded = FALSE
    /\ text = <<>>
    /\ typed = 0
    /\ nlp_result = NoResult
    /\ ratio = <<>>
    /\ call = NoCall
    /\ result = NoResult
    /\ config = Config
    /\ prev = NoResult
    /\ core_calls = <<>>
    /\ calls = <<>>
    /\ sample_data \in Files

\* A call of populate_sample_data (initialize_database at a start of the
\* application).
Populate(io_fail) ==
    /\ call' = [op |-> "populate_sample_data", io_fail |-> io_fail,
                count |-> Cardinality(store)]
    /\ LET done == populate_sample_data(store, sample_data, io_fail)
       IN  /\ store' = done.table
           /\ result' = [outcome |-> done.outcome, pending |-> done.pending]
    /\ UNCHANGED <<nlp_loaded, text, typed, nlp_result, ratio, config, prev,
                   core_calls, calls, sample_data>>

NextSeed == \E io_fail \in 0..MaxRows : Populate(io_fail)

SpecSeed == InitSeed /\ [][NextSeed]_vars

\* ------------------------------------------------- questions about diet

\* The phrases of a message about the menu and a diet.
DietWords == {<<"s","h","o","w">>, <<"m","e","n","u">>, <<"v","e","g","a","n">>, <<"v","e","g">>, <<"f","o","o","d"," ","p","l","e","a","s","e">>, <<"V","e","g","a","n">>}

\* After construction on the seeded store.
InitDiet ==
    /\ store = Dataset
    /\ nlp_loaded \in BOOLEAN
    /\ text = <<>>
    /\ typed = 0
    /\ nlp_result = NoResult
    /\ ratio \in Answers(store)
    /\ call = NoCall
    /\ result = NoResult
    /\ config = Config
    /\ prev = NoResult
    /\ core_calls = <<>>
    /\ calls = <<>>
    /\ sample_data = <<>>

NextDiet ==
    \/ \E p \in DietWords, lib \in Answers(store) : Compose(p, lib)
    \/ \E rnd \in Draws : HandleQuery(rnd)
    \/ Return

SpecDiet == InitDiet /\ [][NextDiet]_vars

\* ------------------------------------------------- concurrent invocations

\* The call contexts (threads of the server) that invoke handle_query.
Contexts == 1..MaxCalls

\* The texts they send.
ConcurrentTexts == {<<"h","i">>, <<"t","e","a">>, <<"v","e","g"," ","m","e","n","u">>}

\* The locals of an invocation that has not started: nlp_result and result
\* are unbound.
IdleCall ==
    [pc |-> "idle", user_input |-> <<>>,
     nlp_result |-> [intent |-> "-", entities |-> <<>>, confidence |-> 0],
     result |-> NoResult]

\* Where the locals of every invocation live if they are kept on the service
\* object, which all contexts share.
FrameOnSelf(p) == 1

\* Where the locals nlp_result, intent, entities, confidence and result of
\* invocation p live: in the frame of that invocation.
Frame(p) == p

\* After construction, no invocation running.  The similarity library answers
\* by name alike for every text of the run.
InitConcurrent ==
    /\ store \in {{}, Dataset}
    /\ nlp_loaded \in BOOLEAN
    /\ text = <<>>
    /\ typed = 0
    /\ nlp_result = NoResult
    /\ ratio \in Answers(store)
    /\ call = NoCall
    /\ result = NoResult
    /\ config = Config
    /\ prev = NoResult
    /\ core_calls = <<>>
    /\ calls = [p \in Contexts |-> IdleCall]
    /\ sample_data = <<>>

\* Context p invokes handle_query(t).
Enter(p, t) ==
    /\ calls[p].pc = "idle"
    /\ calls' = [calls EXCEPT ![p].pc = "process_query", ![p].user_input = t]
    /\ UNCHANGED <<sample_data, store, nlp_loaded, text, typed, nlp_result, ratio, call, result,
                   config, prev, core_calls>>

\* nlp_result = self.nlp.process_query(user_input), and the three locals
\* taken from it.
StepProcessQuery(p) ==
    /\ calls[p].pc = "process_query"
    /\ calls' = [calls EXCEPT
                    ![Frame(p)].nlp_result =
                        ProcessQuery(calls[p].user_input, nlp_loaded),
                    ![p].pc = "handler"]
    /\ UNCHANGED <<sample_data, store, nlp_loaded, text, typed, nlp_result, ratio, call, result,
                   config, prev, core_calls>>

\* result = handler(user_input, entities): the handler reads the store on
\* connections of its own.
StepHandler(p, rnd) ==
    /\ calls[p].pc = "handler"
    /\ LET nlp == calls[Frame(p)].nlp_result
       IN  calls' = [calls EXCEPT
                        ![Frame(p)].result =
                            Dispatch(store, config, ratio, rnd, nlp.intent,
                                     calls[p].user_input, nlp.entities),
                        ![p].pc = "metadata"]
    /\ store' = AfterSelect(store)
    /\ UNCHANGED <<sample_data, nlp_loaded, text, typed, nlp_result, ratio, call, result,
                   config, prev, core_calls>>

\* result['intent'] = intent; result['confidence'] = confidence; return result
StepMetadata(p) ==
    /\ calls[p].pc = "metadata"
    /\ LET f == calls[Frame(p)]
       IN  calls' = [calls EXCEPT
                        ![Frame(p)].result =
                            WithMetadata(f.result, f.nlp_result.intent,
                                         f.nlp_result.confidence),
                        ![p].pc = "done"]
    /\ UNCHANGED <<sample_data, store, nlp_loaded, text, typed, nlp_result, ratio, call, result,
                   config, prev, core_calls>>

\* The caller of context p has its envelope; the frame is gone.
Leave(p) ==
    /\ calls[p].pc = "done"
    /\ calls' = [calls EXCEPT ![p] = IdleCall]
    /\ UNCHANGED <<sample_data, store, nlp_loaded, text, typed, nlp_result, ratio, call, result,
                   config, prev, core_calls>>

NextConcurrent ==
    \/ \E p \in Contexts, t \in ConcurrentTexts : Enter(p, t)
    \/ \E p \in Contexts : StepProcessQuery(p)
    \/ \E p \in Contexts, rnd \in Draws : StepHandler(p, rnd)
    \/ \E p \in Contexts : StepMetadata(p)
    \/ \E p \in Contexts : Leave(p)

SpecConcurrent == InitConcurrent /\ [][NextConcurrent]_vars

\* ------------------------------------------------------------------ claims

Classified == nlp_result # NoResult

\* The intent and confidence of a classified text.
Is(i, c) == nlp_result.intent = i /\ nlp_result.confidence = c

\* C1: the classification of the normalized text is that of the first rule
\* that applies in the order greeting (0.9), price_query (0.85),
\* category_query (0.85), restaurant_info (0.85), item_details (0.8),
\* menu_list (0.85); when no pattern group matches it is item_details (0.6)
\* for a text of at most 3 tokens and unknown (0.3) otherwise.
C1_FirstRuleWins ==
    Classified =>
        LET t == nlp_result.original_query
            g == greeting_patterns(t)
            p == price_patterns(t)
            c == category_patterns(t)
            r == info_patterns(t)
            d == details_patterns(t)
            m == menu_patterns(t)
        IN  /\ g => Is("greeting", 90)
            /\ ~g /\ p => Is("price_query", 85)
            /\ ~g /\ ~p /\ c => Is("category_query", 85)
            /\ ~g /\ ~p /\ ~c /\ r => Is("restaurant_info", 85)
            /\ ~g /\ ~p /\ ~c /\ ~r /\ d => Is("item_details", 80)
            /\ ~g /\ ~p /\ ~c /\ ~r /\ ~d /\ m => Is("menu_list", 85)
            /\ ~g /\ ~p /\ ~c /\ ~r /\ ~d /\ ~m =>
                  IF SplitLen(t) <= 3 THEN Is("item_details", 60)
                                      ELSE Is("unknown", 30)

\* C1's case: a text matching both the price and the details patterns has been
\* classified, as price_query.
C1_Witness ==
    /\ Classified
    /\ price_patterns(nlp_result.original_query)
    /\ details_patterns(nlp_result.original_query)
    /\ ~greeting_patterns(nlp_result.original_query)
    /\ nlp_result.intent = "price_query"

\* The largest number of a non-empty set of numbers.
MaxOf(S) == CHOOSE x \in S : \A y \in S : y <= x

\* The smallest number of a non-empty set of numbers.
MinOf(S) == CHOOSE x \in S : \A y \in S : x <= y

\* The best similarity score over the candidate list of the matcher's call.
BestScore ==
    MaxOf({0} \cup {ratio[Lower(call.menu_items[i].name)] :
                        i \in 1..Len(call.menu_items)})

\* The threshold of the matcher's call on the 0-100 scale: the configured
\* 0.65 when none is passed.
CallThreshold ==
    IF call.threshold = {} THEN 65 ELSE CHOOSE t \in call.threshold : TRUE

MenuSelected ==
    IF "category" \in DOMAIN call.entities
    THEN {x \in store : Lower(x.category) = call.entities.category}
    ELSE store

\* The rows of the menu_list call's selection that pass its dietary filters.
MenuFiltered ==
    {x \in MenuSelected :
        /\ Truthy(call.entities, "vegetarian") => x.is_vegetarian
        /\ Truthy(call.entities, "vegan") => x.is_vegan}

\* C3: menu_list called with vegetarian true returns in data only vegetarian
\* items (only vegan ones too when vegan is true), each an item of the
\* selection, with count the number of returned items; when no item passes the
\* filters it returns the no-matching-items message with empty data, and no
\* error.
C3_VegetarianOnly ==
    call.op = "menu_list" /\ Truthy(call.entities, "vegetarian") =>
        /\ "error" \notin DOMAIN result
        /\ \A i \in 1..Len(result.data) :
              /\ result.data[i].vegetarian
              /\ Truthy(call.entities, "vegan") => result.data[i].vegan
              /\ \E x \in MenuSelected : x.name = result.data[i].name
        /\ MenuFiltered # {} =>
              /\ "count" \in DOMAIN result
              /\ result.count = Len(result.data)
              /\ result.count = Cardinality(MenuFiltered)
        /\ MenuFiltered = {} =>
              /\ result.data = <<>>
              /\ "count" \notin DOMAIN result
              /\ result.response.msg =
                    "Sorry, I couldn't find any items matching your criteria."

\* C3's case: the vegetarian filter dropped an item of the selection and kept
\* another.
C3_Witness ==
    /\ call.op = "menu_list"
    /\ Truthy(call.entities, "vegetarian")
    /\ \E x \in MenuSelected : ~x.is_vegetarian
    /\ result.data # <<>>
    /\ "count" \in DOMAIN result

\* The rows a phrase hits in the store.
Hits(keyword) ==
    {x \in store : \/ Contains(Lower(x.name), Lower(keyword))
                   \/ Contains(Lower(x.description), Lower(keyword))}

\* The potential_items of the handler call, empty when the key is not set.
CallPhrases ==
    IF "potential_items" \in DOMAIN call.entities
    THEN call.entities.potential_items ELSE <<>>

\* The first phrase of the call with a hit, 0 when there is none.
FirstHit ==
    IF \E k \in 1..Len(CallPhrases) : Hits(CallPhrases[k]) # {}
    THEN MinOf({k \in 1..Len(CallPhrases) : Hits(CallPhrases[k]) # {}})
    ELSE 0

\* The fuzzy match of the handler call's query against all items.
CallMatch == fuzzy_match_item(ratio, text, get_all_items(store), {})

\* C4: item_details returns the fuzzy match's item when its confidence exceeds
\* 0.6; otherwise the first phrase of potential_items with a hit decides: one
\* hit returns that item, several return the disambiguation prompt naming at
\* most 5 of that phrase's hits (data the same items); with no hit or no
\* potential_items it returns the could-not-find message with suggestions.
C4_ItemDetailsOrder ==
    call.op = "item_details" =>
        IF \E m \in CallMatch : m.confidence > 60
        THEN \A m \in CallMatch :
                /\ result.data = m.item
                /\ result.matched_item = m.item.name
                /\ result.match_confidence = m.confidence
        ELSE IF FirstHit = 0
        THEN /\ result.response.msg = "I couldn't find that item. Try asking about specific dishes like 'pizza' or 'chicken tikka'."
             /\ "suggestions" \in DOMAIN result
             /\ "data" \notin DOMAIN result
        ELSE LET hits == Hits(CallPhrases[FirstHit])
             IN  IF Cardinality(hits) = 1
                 THEN /\ result.data \in hits
                      /\ result.matched_item = result.data.name
                 ELSE /\ result.response.msg =
                            "I found multiple items. Did you mean: {names}?"
                      /\ Len(result.data) <= 5
                      /\ Len(result.response.names) <= 5
                      /\ Len(result.data) = IF Cardinality(hits) < 5
                                            THEN Cardinality(hits) ELSE 5
                      /\ Len(result.response.names) = Len(result.data)
                      /\ \A i \in 1..Len(result.data) :
                            /\ result.data[i] \in hits
                            /\ result.response.names[i] = result.data[i].name

\* C4's case: no fuzzy match, the first phrase hit nothing and the second hit
\* more than five items, of which five were returned.
C4_Witness ==
    /\ call.op = "item_details"
    /\ CallMatch = {}
    /\ FirstHit = 2
    /\ Cardinality(Hits(CallPhrases[2])) > 5
    /\ Len(result.data) = 5

\* The rows the general price query of the call works on.
PriceSelected ==
    IF "category" \in DOMAIN call.entities
    THEN {x \in store : Lower(x.category) = call.entities.category}
    ELSE store

\* The sum of the prices of a set of rows.
RECURSIVE PriceSum(_)
PriceSum(S) ==
    IF S = {} THEN 0
    ELSE LET x == CHOOSE y \in S : TRUE IN x.price + PriceSum(S \ {x})

\* The general price query answered with a price range.
PriceRangeGiven ==
    /\ call.op = "price_query"
    /\ CallMatch = {}
    /\ PriceSelected # {}

\* C5 as stated: with no fuzzy match and a non-empty selection, data.min is
\* the smallest price, data.max the largest and data.average the arithmetic
\* mean of the selection (data.average is in hundredths of a rupee).
C5_AverageIsMean ==
    PriceRangeGiven =>
        /\ result.data.min = MinOf({x.price : x \in PriceSelected})
        /\ result.data.max = MaxOf({x.price : x \in PriceSelected})
        /\ result.data.average * Cardinality(PriceSelected) =
              100 * PriceSum(PriceSelected)

\* C5 amended: with no fuzzy match and a non-empty selection, data.min is the
\* smallest price, data.max the largest and data.average the arithmetic mean
\* rounded to two decimals (within 0.005 of the mean), so that
\* min <= average <= max; prices 120, 200, 340 give 120, 340, 220.0; with an
\* empty selection the handler returns the could-not-find-pricing message and
\* raises no error.
C5_AverageIsRoundedMean ==
    /\ PriceRangeGiven =>
          LET n == Cardinality(PriceSelected)
              diff == result.data.average * n - 100 * PriceSum(PriceSelected)
          IN  /\ "error" \notin DOMAIN result
              /\ result.data.min = MinOf({x.price : x \in PriceSelected})
              /\ result.data.max = MaxOf({x.price : x \in PriceSelected})
              /\ 2 * diff <= n /\ 2 * diff >= 0 - n
              /\ 100 * result.data.min <= result.data.average
              /\ result.data.average <= 100 * result.data.max
              /\ {x.price : x \in PriceSelected} = {120, 200, 340} /\ n = 3 =>
                    result.data = [min |-> 120, max |-> 340, average |-> 22000]
    /\ call.op = "price_query" /\ CallMatch = {} /\ PriceSelected = {} =>
          result = [response |-> [msg |-> "I couldn't find pricing for that."]]

\* C5's case: a price range was given for a selection whose mean is no whole
\* number of hundredths.
C5_Witness ==
    /\ PriceRangeGiven
    /\ (100 * PriceSum(PriceSelected)) % Cardinality(PriceSelected) # 0
    /\ "data" \in DOMAIN result

\* The category_query call names a category that has items.
CategoryHasItems ==
    /\ "category" \in DOMAIN call.entities
    /\ \E x \in store : Lower(x.category) = call.entities.category

\* C6: category_query returns the item list of the category with its count
\* only when a category entity is present and has at least one item; in every
\* other case it returns the sorted list of the distinct categories of the
\* store in data.categories; it raises no error.
C6_CategoryOrAll ==
    call.op = "category_query" =>
        /\ "error" \notin DOMAIN result
        /\ CategoryHasItems =>
              /\ result.count = Len(result.data)
              /\ result.count >= 1
              /\ {result.data[i].name : i \in 1..Len(result.data)} =
                    {x.name : x \in {y \in store :
                                Lower(y.category) = call.entities.category}}
        /\ ~CategoryHasItems =>
              LET cs == result.data.categories
              IN  /\ "count" \notin DOMAIN result
                  /\ {cs[i] : i \in 1..Len(cs)} = {x.category : x \in store}
                  /\ \A i, j \in 1..Len(cs) : i < j => StrLess(cs[i], cs[j])

\* C6's case: the category named has no item in a store of several categories,
\* and all of them were listed.
C6_Witness ==
    /\ call.op = "category_query"
    /\ "category" \in DOMAIN call.entities
    /\ ~CategoryHasItems
    /\ "data" \in DOMAIN result
    /\ Len(result.data.categories) >= 2


\* The name asked for by the lookup in hand is the name of no item.
Absent == \A x \in store : Lower(x.name) # Lower(call.item_name)

\* C7: for every store, the empty one included, and every non-empty query
\* text, handle_query returns an envelope with a response text and raises no
\* error; a direct lookup by an absent name yields the absent value, and the
\* item endpoint turns it into a 404 reply.
C7_MissesAreNotErrors ==
    /\ (call.op = "handle_query" /\ call.user_input # <<>>) =>
          /\ "error" \notin DOMAIN result
          /\ "response" \in DOMAIN result
          /\ "intent" \in DOMAIN result
    /\ (call.op = "get_item_details" /\ Absent) => result.value = {}
    /\ (call.op = "get_item" /\ Absent) =>
          /\ result.status = 404
          /\ result.body.error = "Item not found"

\* C7's case: a price question over an empty store was answered by the
\* message that no pricing was found.
C7_Witness ==
    /\ call.op = "handle_query"
    /\ store = {}
    /\ result.intent = "price_query"
    /\ result.response = [msg |-> "I couldn't find pricing for that."]

\* The fields of an envelope that do not depend on a random choice.
StableFields == {"intent", "confidence", "data", "count", "suggestions"}

\* C8: a second handle_query call with the same text on the same store gives
\* an envelope with the same intent, confidence, data, count and suggestions
\* as the first, and the same response text unless the intent is greeting or
\* unknown.
C8_RepeatedCallAgrees ==
    (call.op = "handle_query" /\ prev # NoResult) =>
        /\ \A k \in StableFields :
              /\ k \in DOMAIN result <=> k \in DOMAIN prev
              /\ k \in DOMAIN result => result[k] = prev[k]
        /\ result.intent \notin {"greeting", "unknown"} =>
              result.response = prev.response

\* C8's case: a greeting was answered twice, with two different texts and the
\* same suggestions.
C8_Witness ==
    /\ call.op = "handle_query"
    /\ prev # NoResult
    /\ result.intent = "greeting"
    /\ result.response # prev.response
    /\ result.suggestions = prev.suggestions

\* C9: no step of handle_query, of the chat endpoint or of a direct accessor
\* changes the set of menu items of the store or the static configuration.
C9_OnlyReads == [][store' = store /\ config' = config]_vars

\* C9's case: handle_query has read items of a store that holds some, and the
\* store holds the whole dataset still.
C9_Witness ==
    /\ call.op = "handle_query"
    /\ "data" \in DOMAIN result
    /\ result.intent = "menu_list"
    /\ store = Dataset
    /\ config = Config

\* The body of the chat request in hand has no message.
MessageMissing ==
    \/ call.data.json # "object"
    \/ "message" \notin DOMAIN call.data.members

\* The body of the chat request in hand has a message that is empty once its
\* surrounding whitespace is trimmed.
MessageEmpty ==
    /\ ~MessageMissing
    /\ call.data.members.message.json = "string"
    /\ Strip(call.data.members.message.value) = <<>>

\* C10: the chat endpoint answers a request with a missing message, or with a
\* message that is empty after trimming, by a 400 reply without calling
\* handle_query; every other message reaches handle_query exactly once.
C10_ValidatedBeforeCore ==
    call.op = "chat" =>
        IF MessageMissing \/ MessageEmpty
        THEN result.status = 400 /\ core_calls = <<>>
        ELSE Len(core_calls) = 1

\* The generic apology of the chat endpoint.
Apology ==
    Reply(500, [error |-> "Internal server error",
                response |-> "Sorry, something went wrong. Please try again!"])

\* The chat request in hand carries a message for which the core raises.
CoreRaises ==
    /\ call.op = "chat"
    /\ ~MessageMissing
    /\ call.data.members.message.json = "string"
    /\ Strip(call.data.members.message.value) # <<>>
    /\ "error" \in DOMAIN handle_query(store, config, nlp_loaded, ratio, 1,
                                       Strip(call.data.members.message.value))

\* C11: whenever the core raises while handling a chat request, the reply is
\* status 500 with the fixed apology and nothing else: no text of the error
\* raised, no part of a handler result.
C11_GenericApology == CoreRaises => result = Apology

\* C11's case: a question about prices reached the core, whose read of the
\* store raised, and the apology was the reply.
C11_Witness ==
    /\ CoreRaises
    /\ ~Reachable(store)
    /\ core_calls = <<<<"h","o","w"," ","m","u","c","h">>>>
    /\ result.status = 500

\* Envelope a is envelope b, apart from the text drawn at random.
SameEnvelope(a, b) ==
    /\ \A k \in StableFields :
          /\ k \in DOMAIN a <=> k \in DOMAIN b
          /\ k \in DOMAIN a => a[k] = b[k]
    /\ "response" \in DOMAIN a
    /\ a.intent \notin {"greeting", "unknown"} => a.response = b.response

\* What handle_query returns for the text of context p when it runs alone.
Alone(p) == handle_query(store, config, nlp_loaded, ratio, 1, calls[p].user_input)

\* Every invocation that has returned holds the envelope of a run alone.
ReturnsAsAlone ==
    \A p \in Contexts : calls[p].pc = "done" => SameEnvelope(calls[p].result, Alone(p))

\* A step writes the locals of one invocation at most, and neither the store
\* nor the configuration.
WritesOwnLocals ==
    /\ \A p, q \in Contexts : (calls'[p] # calls[p] /\ p # q) => calls'[q] = calls[q]
    /\ store' = store
    /\ config' = config

\* C12: in every interleaving of concurrent handle_query invocations each one
\* returns the envelope it returns when run alone (apart from the text drawn
\* at random), no step touches the locals of another invocation, and the
\* shared store and configuration are never written.
C12_CallsAreIsolated == []ReturnsAsAlone /\ [][WritesOwnLocals]_vars

\* C12's case: an invocation returned its menu while another one, entered
\* with a different text, was between its classification and its return.
C12_Witness ==
    /\ calls[1].pc = "done"
    /\ calls[1].user_input = <<"v","e","g"," ","m","e","n","u">>
    /\ "data" \in DOMAIN calls[1].result
    /\ calls[2].pc \in {"handler", "metadata"}
    /\ calls[2].user_input = <<"t","e","a">>

\* The intents that have a handler of their own in handle_query.
Handled ==
    {"greeting", "menu_list", "item_details", "price_query", "category_query",
     "restaurant_info"}

\* What the extractor produces for the text of the handle_query call in hand.
Extracted == ProcessQuery(call.user_input, nlp_loaded)

\* The elements of a list.
Range(seq) == {seq[i] : i \in 1..Len(seq)}

\* C13: the envelope of every handle_query call carries the intent and the
\* confidence the extractor produced for the same text, whatever the handler
\* returned; the confidence lies in [0,1] (here 0..100 hundredths); an intent
\* without a handler of its own is answered by the fallback handler.
C13_MetadataFromExtractor ==
    call.op = "handle_query" =>
        /\ result.intent = Extracted.intent
        /\ result.confidence = Extracted.confidence
        /\ result.confidence \in 0..100
        /\ result.intent \notin Handled =>
              /\ result.response \in Range(config.FALLBACK_RESPONSES)
              /\ result.suggestions = HandleUnknown(config, 1).suggestions
              /\ "data" \notin DOMAIN result

\* C13's case: the handler matched an item with full similarity and said so
\* in its result, and the envelope carries the extractor's lower confidence.
C13_Witness ==
    /\ call.op = "handle_query"
    /\ "match_confidence" \in DOMAIN result
    /\ result.match_confidence = 100
    /\ result.confidence = 60
    /\ result.intent = "item_details"

\* C13's other case: a text no rule recognises went to the fallback handler.
C13_WitnessFallback ==
    /\ call.op = "handle_query"
    /\ result.intent = "unknown"
    /\ result.confidence = 30

\* The info block of the first cue group present in text t, letter case
\* aside, in the order hours, address, contact; the general one without cue.
BlockByCue(t) ==
    LET low == Lower(t)
    IN  IF SearchB(low, {<<"t","i","m","i","n","g">>, <<"h","o","u","r","s">>, <<"o","p","e","n">>, <<"c","l","o","s","e">>, <<"w","h","e","n">>})
        THEN "Opening Hours"
        ELSE IF SearchB(low, {<<"a","d","d","r","e","s","s">>, <<"l","o","c","a","t","i","o","n">>, <<"w","h","e","r","e">>, <<"s","i","t","u","a","t","e","d">>})
        THEN "Location"
        ELSE IF SearchB(low, {<<"c","o","n","t","a","c","t">>, <<"p","h","o","n","e">>, <<"e","m","a","i","l">>, <<"c","a","l","l">>})
        THEN "Contact Us"
        ELSE "General"

\* C14: every query that handle_query classifies as restaurant_info gets the
\* info block of the first cue group present in its text in the order hours,
\* address, contact, and the general summary when no cue is present, whatever
\* the letter case of the text.
C14_InfoBlockByCue ==
    (call.op = "handle_query" /\ result.intent = "restaurant_info") =>
        result.response.block = BlockByCue(call.user_input)

\* The similarity score of candidate i of the matcher's call.
ScoreAt(i) == ratio[Lower(call.menu_items[i].name)]

\* The first candidate of the matcher's call that has the best score.
FirstBest ==
    MinOf({i \in 1..Len(call.menu_items) : ScoreAt(i) = BestScore})

\* C15: the item fuzzy_match_item returns is the candidate with the highest
\* similarity score, and among several with that score the one that comes
\* first in the candidate list.
C15_FirstOfTheBest ==
    call.op = "fuzzy_match_item" =>
        \A m \in result.value :
            /\ m.item = call.menu_items[FirstBest]
            /\ \A i \in 1..Len(call.menu_items) : ScoreAt(i) <= m.confidence

\* C15's case: two candidates of different names share the best score, a
\* third scores less, and the earlier of the two was returned.
C15_Witness ==
    /\ call.op = "fuzzy_match_item"
    /\ Len(call.menu_items) = 3
    /\ ScoreAt(1) < ScoreAt(2)
    /\ ScoreAt(2) = ScoreAt(3)
    /\ call.menu_items[2] # call.menu_items[3]
    /\ \E m \in result.value : m.item = call.menu_items[2]

\* The cues of the three dietary rules in the text that was classified.
VegetarianCue == SearchBB(nlp_result.original_query, {<<"v","e","g","e","t","a","r","i","a","n">>, <<"v","e","g">>})
VeganCue == SearchBB(nlp_result.original_query, {<<"v","e","g","a","n">>})
NonVegCue ==
    SearchBB(nlp_result.original_query, {<<"n","o","n","-","v","e","g">>, <<"n","o","n"," ","v","e","g">>, <<"c","h","i","c","k","e","n">>, <<"m","e","a","t">>})

\* The whole menu of the dataset, as menu_list selects it before filtering.
WholeMenu == get_all_items(Dataset)

\* C16: the dietary rules apply in the order vegetarian cue, vegan cue, non-veg
\* cue and the last applicable one wins: with a non-veg cue vegetarian is
\* false, a vegetarian cue or not, and the vegetarian filter of menu_list then
\* keeps every item; with a vegetarian cue alone it is true; the vegan flag is
\* true exactly when the vegan cue is present, whatever the other two cues.
C16_LastDietaryRuleWins ==
    Classified =>
        LET entities == nlp_result.entities
        IN  /\ NonVegCue =>
                  /\ "vegetarian" \in DOMAIN entities
                  /\ entities.vegetarian = FALSE
                  /\ VegetarianFilter(WholeMenu, entities) = WholeMenu
            /\ (VegetarianCue /\ ~NonVegCue) =>
                  /\ "vegetarian" \in DOMAIN entities
                  /\ entities.vegetarian = TRUE
            /\ (~VegetarianCue /\ ~NonVegCue) => "vegetarian" \notin DOMAIN entities
            /\ VeganCue <=> "vegan" \in DOMAIN entities
            /\ "vegan" \in DOMAIN entities => entities.vegan = TRUE

\* C16's case: a text with a vegetarian cue, a vegan cue and a chicken cue
\* gave vegetarian = false and vegan = true.
C16_Witness ==
    /\ Classified
    /\ VegetarianCue
    /\ VeganCue
    /\ NonVegCue
    /\ nlp_result.entities.vegetarian = FALSE
    /\ nlp_result.entities.vegan = TRUE

\* The entity map handle_query extracted for the text of the call in hand.
CallEntities == ExtractEntities(Lower(Strip(call.user_input)), nlp_loaded)

\* C17: whenever the entities of a handle_query call contain vegan = true, the
\* intent is not menu_list, so no menu_list answer of handle_query is ever
\* filtered to, or labelled as, vegan options.
C17_VeganNeverMenuList ==
    call.op = "handle_query" =>
        /\ Truthy(CallEntities, "vegan") => result.intent # "menu_list"
        /\ (result.intent = "menu_list" /\ "count" \in DOMAIN result) =>
              /\ ~result.response.vegan_options
              /\ \E i \in 1..Len(result.data) : ~result.data[i].vegan

\* C17's case: the text asks for the vegan menu, matches a menu pattern and
\* carries the vegan flag, and was answered as item_details.
C17_Witness ==
    /\ call.op = "handle_query"
    /\ call.user_input = <<"V","e","g","a","n"," ","m","e","n","u">>
    /\ menu_patterns(Lower(Strip(call.user_input)))
    /\ Truthy(CallEntities, "vegan")
    /\ result.intent = "item_details"

\* The table holds every entry of the dataset file, each once.
WholeDataset ==
    /\ sample_data.kind = "json"
    /\ \A i \in 1..Len(sample_data.menu_items) :
          /\ DOMAIN sample_data.menu_items[i] = Columns
          /\ sample_data.menu_items[i] \in store
    /\ \A x \in store : \E i \in 1..Len(sample_data.menu_items) :
          x = sample_data.menu_items[i]
    /\ Cardinality(store) = Len(sample_data.menu_items)

\* A call on a table that holds rows leaves the table as it is.
NonEmptyUntouched == store # {} => store' = store

\* C18: after any number of populate_sample_data calls, failing ones
\* included, the table is empty or holds every entry of the dataset exactly
\* once; a call on a non-empty table inserts nothing, and a call that fails
\* before the commit leaves no row.
C18_AllOrNothing ==
    /\ [](store = {} \/ WholeDataset)
    /\ []((call.op = "populate_sample_data"
           /\ result.outcome \notin {"loaded", "skipped"}) => store = {})
    /\ [][NonEmptyUntouched]_vars

\* C18's case: a call failed at the last of three entries with two rows
\* pending, and the table is empty.
C18_Witness ==
    /\ call.op = "populate_sample_data"
    /\ sample_data.kind = "json"
    /\ Len(sample_data.menu_items) = 3
    /\ result.pending = 2
    /\ result.outcome = "IntegrityError"
    /\ store = {}

====
